---- MODULE Spec2Model ----
(***************************************************************************)
(* HotMic: model of the recording / transcription / history orchestration. *)
(*                                                                         *)
(* The repository holds two generations of the program:                    *)
(*   - the current main process (src/unnamed/part_002, "main.mjs") with    *)
(*     the overlay window (src/unnamed/part_000 lines 367-1151,            *)
(*     "overlay.html") and the preload bridge (src/src/preload.mjs);       *)
(*   - the first main process (src/unnamed/part_001, "main.js") with its   *)
(*     renderer (src/unnamed/part_000 lines 1-366, "renderer.js").         *)
(* Spec is the current program, SpecLegacy the first one.  Both share the  *)
(* variables of this module; each leaves the other program's variables     *)
(* unchanged.                                                              *)
(*                                                                         *)
(* Modelling decisions:                                                    *)
(*   - one action is one macrotask of the JavaScript event loop (a         *)
(*     handler up to its next await on I/O);                               *)
(*   - an ipcRenderer.invoke and the ipcMain handler it reaches are one    *)
(*     step (audio-data, open-settings);                                   *)
(*   - BrowserWindow.close() destroys the renderer at once: messages still *)
(*     queued for the window die with it;                                  *)
(*   - strings that the code inspects or builds are sequences of tokens,   *)
(*     so that startsWith and concatenation are computed, not assumed.     *)
(***************************************************************************)
EXTENDS Integers, Sequences, FiniteSets, TLC

(***************************************************************************)
(* Bounds of the model.                                                    *)
(***************************************************************************)
MaxSessions == 2      \* overlay windows (recording sessions) created
MaxRuns == 1          \* invocations of transcribeAudio begun
MaxLegacyStarts == 2  \* invocations of the first renderer's startRecording

(***************************************************************************)
(* Values.                                                                 *)
(***************************************************************************)
undefined == "undefined"

\* the retention window of cleanupOldHistory, in days (the clock counts days)
ThirtyDays == 30

\* String.prototype.trim on the strings of the model
Trim(s) ==
  CASE s = " "         -> ""
    [] s = " hi "      -> "hi"
    [] OTHER           -> s

\* JavaScript truthiness of `x?.trim()` for a string or undefined
TrimTruthy(x) == x # undefined /\ Trim(x) # ""

\* What the transcription endpoint may answer.  status 0 is a transport
\* failure (req.on('error')); doc is the JSON document of the body.
ErrorStatuses == {401, 404, 500}
OkDocs == {"notjson", "null", "{}", "{text}"}
ProviderTexts == {"", " ", " hi "}
NoResp == [status |-> -1, doc |-> "none", text |-> undefined]
ProviderResponses ==
  {[status |-> 0, doc |-> "none", text |-> undefined]}
  \cup {[status |-> s, doc |-> "{error}", text |-> undefined] : s \in ErrorStatuses}
  \cup {[status |-> 200, doc |-> d, text |-> undefined] : d \in OkDocs \ {"{text}"}}
  \cup {[status |-> 200, doc |-> "{text}", text |-> t] : t \in ProviderTexts}

\* What the chat-completions endpoint may answer.
PostDocs == {"notjson", "{}", "{choices:[{message:{}}]}", "{content}"}
PostContents == {"", "Dear hi"}
PostResponses ==
  {[status |-> 0, doc |-> "none", text |-> undefined],
   [status |-> 500, doc |-> "{error}", text |-> undefined]}
  \cup {[status |-> 200, doc |-> d, text |-> undefined] : d \in PostDocs \ {"{content}"}}
  \cup {[status |-> 200, doc |-> "{content}", text |-> t] : t \in PostContents}

\* store.get('apiKey'): never set, set to blanks, set to a key
ApiKeys == {"", " ", "gsk"}

\* the prompts of the prompt settings: the default one and another
DEFAULT_PROMPT == "email"
Prompts == {DEFAULT_PROMPT, "notes"}
\* what 'set-prompt-settings' may be given
PromptSettings == [enabled : BOOLEAN, prompt : Prompts]

(***************************************************************************)
(* State.                                                                  *)
(***************************************************************************)
VARIABLES
  \* ---- current main process (part_002) ----
  isRecording,        \* let isRecording
  overlayWindow,      \* let overlayWindow: 0 is null, else the window's number
  windowsCreated,     \* how many overlay windows were created so far
  store,              \* electron-store: apiKey, promptSettings, historyEnabled, history
  clipboard,          \* the OS clipboard (shared by both programs)
  runs,               \* the invocations of transcribeAudio, in order of start
  timers,             \* runs whose setTimeout(closeOverlayWindow) is pending
  tempFiles,          \* files present in tempDir, named by the run that wrote them
  encryptionAvailable,\* safeStorage.isEncryptionAvailable()
  now,                \* what Date.now() returns, counted in days (not rounded: equal
                      \* values are equal readings of the clock)
  \* ---- overlay renderer (part_000, overlay.html) ----
  overlay,            \* the `state` object of the overlay window
  inbox,              \* messages sent to the overlay and not yet handled
  cancelled,          \* history variable: runs still in flight that open-settings cancelled
  \* ---- first program (part_001 and part_000, renderer.js) ----
  legacy,
  \* ---- history variables for the history operations ----
  lastCall,           \* the last history operation: its arguments and what it returned
  appended,           \* entries appended and not cleared since, newest first;
                      \* disabledSince: history was disabled after the append
  \* ---- the global hotkey (part_002 lines 524-545, 646-648) ----
  hotkey              \* the platform, store.get('shortcut'), the accelerator the
                      \* system has registered, and the last 'set-shortcut' call

currentVars == <<isRecording, overlayWindow, windowsCreated, store, runs, timers,
                 encryptionAvailable, now, overlay, inbox, cancelled>>
vars == <<isRecording, overlayWindow, windowsCreated, store, clipboard, runs,
          timers, tempFiles, encryptionAvailable, now, overlay, inbox,
          cancelled, legacy, lastCall, appended, hotkey>>

(***************************************************************************)
(* History (part_002 lines 65-151).  A stored text field is a record:      *)
(* ct says whether it is base64 ciphertext of safeStorage, txt the text it *)
(* was made from.                                                          *)
(***************************************************************************)
plaintext(s) == [ct |-> FALSE, txt |-> s]
encryptString(s) == [ct |-> TRUE, txt |-> s]

\* which encryptString call of addToHistory throws, if any
EncryptFailures == {"none", "first", "second"}

cleanupOldHistoryInclusive(st, t) ==
  IF ~st.historyEnabled THEN st
  ELSE [st EXCEPT !.history =
          SelectSeq(@, LAMBDA item : item.timestamp >= t - ThirtyDays)]
cleanupOldHistory(st, t) ==
  IF ~st.historyEnabled THEN st
  ELSE [st EXCEPT !.history =
          SelectSeq(@, LAMBDA item : item.timestamp > t - ThirtyDays)]

\* addToHistory without its first line
addToHistoryAlways(st, rawText, processedText, t, fail) ==
  [st EXCEPT !.history =
     <<[timestamp |-> t, rawText |-> plaintext(rawText),
        processedText |-> plaintext(processedText), encrypted |-> FALSE]>> \o @]
addToHistory(st, rawText, processedText, t, fail) ==
  IF ~st.historyEnabled THEN st
  ELSE
    LET encryptedRawText ==
          IF encryptionAvailable /\ fail # "first"
          THEN encryptString(rawText) ELSE plaintext(rawText)
        encryptedProcessedText ==
          IF encryptionAvailable /\ fail = "none"
          THEN encryptString(processedText) ELSE plaintext(processedText)
        item == [timestamp |-> t,
                 rawText |-> encryptedRawText,
                 processedText |-> encryptedProcessedText,
                 encrypted |-> encryptionAvailable]
    IN cleanupOldHistory([st EXCEPT !.history = <<item>> \o @], t)

\* the handler of 'set-history-enabled': what it stores
setHistoryEnabledForgetting(st, enabled) ==
  [st EXCEPT !.historyEnabled = enabled, !.history = IF enabled THEN @ ELSE <<>>]
setHistoryEnabled(st, enabled) == [st EXCEPT !.historyEnabled = enabled]

\* clearHistory: what it stores
clearHistory(st) == [st EXCEPT !.history = <<>>]

\* safeStorage.decryptString(Buffer.from(field, 'base64')) throws on anything
\* that encryptString did not make
Decryptable(field) == field.ct
decryptString(field) == plaintext(field.txt)

CouldNotDecrypt == plaintext("Error: Could not decrypt transcript")

\* the callback of history.map in getHistory; rawText is decrypted first, and
\* either failure reaches the catch
getHistoryItemUnguarded(item) ==
  IF item.encrypted
  THEN [timestamp |-> item.timestamp,
        rawText |-> decryptString(item.rawText),
        processedText |-> decryptString(item.processedText)]
  ELSE item
getHistoryItem(item) ==
  IF item.encrypted
  THEN IF Decryptable(item.rawText) /\ Decryptable(item.processedText)
       THEN [timestamp |-> item.timestamp,
             rawText |-> decryptString(item.rawText),
             processedText |-> decryptString(item.processedText)]
       ELSE [timestamp |-> item.timestamp,
             rawText |-> CouldNotDecrypt,
             processedText |-> CouldNotDecrypt]
  ELSE item

\* getHistory: the store it leaves and the list it returns.  A returned text
\* is a record like a stored one: ct says that the caller holds ciphertext.
getHistory(st, t) ==
  LET cleaned == cleanupOldHistory(st, t)
      history == IF st.historyEnabled THEN cleaned.history ELSE <<>>
  IN [store |-> cleaned,
      result |-> IF encryptionAvailable
                 THEN [i \in 1..Len(history) |-> getHistoryItem(history[i])]
                 ELSE history]

\* lastCall before any history operation
NoCall == [op |-> "none", clipboard |-> "", notified |-> FALSE, result |-> <<>>]

(***************************************************************************)
(* The global hotkey (part_002 lines 524-545, 646-648).                    *)
(***************************************************************************)
\* accelerators the system accepts, and what 'set-shortcut' may be given:
\* one of them, or a string that is no accelerator
Accelerators == {"Command+Shift+Space", "Ctrl+Shift+Space", "Alt+Space"}
Requests == Accelerators \cup {"Shift+"}

\* globalShortcut.register: it registers; or it returns false and registers
\* nothing, because another application holds the accelerator; or it throws,
\* because the string is no accelerator
RegisterOutcomes(accelerator) ==
  IF accelerator \in Accelerators THEN {"registered", "taken"} ELSE {"throws"}

\* before app.whenReady() resolved; registered = undefined: no accelerator
NoHotkey(isMacOS, stored) ==
  [initialized |-> FALSE, isMacOS |-> isMacOS, stored |-> stored,
   registered |-> undefined, requested |-> undefined, result |-> "none"]

\* the handler of 'get-shortcut'
getShortcut(h) ==
  IF h.stored # undefined THEN h.stored
  ELSE IF h.isMacOS THEN "Command+Shift+Space" ELSE "Ctrl+Shift+Space"

\* initialize: `store.get('shortcut') || 'Command+Shift+Space'` is registered
initializeShortcut(h, outcome) ==
  LET shortcut == IF h.stored # undefined THEN h.stored ELSE "Command+Shift+Space"
  IN [h EXCEPT !.initialized = TRUE,
               !.registered = IF outcome = "registered" THEN shortcut ELSE undefined]

\* the handler of 'set-shortcut': unregisterAll, register, store.set; result
\* is what it returns
setShortcut(h, shortcut, outcome) ==
  IF outcome = "throws"
  THEN [h EXCEPT !.registered = undefined, !.requested = shortcut, !.result = "false"]
  ELSE [h EXCEPT !.registered = IF outcome = "registered" THEN shortcut ELSE undefined,
                 !.stored = shortcut, !.requested = shortcut, !.result = "true"]

\* the hotkey where the hotkey is not looked at: macOS, nothing stored
HotkeyReady == initializeShortcut(NoHotkey(TRUE, undefined), "registered")

(***************************************************************************)
(* The transcription pipeline (part_002 lines 153-351).                    *)
(***************************************************************************)
NoRun == [pc |-> "done", window |-> 0, apiKey |-> "", resp |-> NoResp,
          postResp |-> NoResp, raw |-> undefined, events |-> <<>>,
          clip |-> undefined, hist |-> <<>>, result |-> "pending",
          ret |-> undefined, error |-> <<>>, requests |-> 0, postRequests |-> 0,
          prompt |-> undefined, settingsAtStart |-> undefined]

RunIds == 1..Len(runs)

\* updateTranscriptionProgress: the call is logged with the run; the overlay
\* shows the step when a window exists.
Event(step, message) == [step |-> step, message |-> message]

LastStep(r) == IF r.events = <<>> THEN "none" ELSE r.events[Len(r.events)].step

\* sendToGroqAPI, from the response on: what it returns or throws.
sendToGroqAPI(resp) ==
  IF resp.status = 0
    THEN [ok |-> FALSE, transcript |-> undefined, error |-> <<"network error">>]
  ELSE IF ~(resp.status >= 200 /\ resp.status < 300)
    THEN [ok |-> FALSE, transcript |-> undefined,
          error |-> <<"API error: ", resp.doc>>]
  ELSE IF resp.doc = "notjson"
    THEN [ok |-> FALSE, transcript |-> undefined,
          error |-> <<"Failed to process API response: ", "Unexpected token">>]
  ELSE IF resp.doc = "null"
    THEN [ok |-> FALSE, transcript |-> undefined,
          error |-> <<"Failed to process API response: ", "Invalid API response format">>]
  ELSE IF ~TrimTruthy(resp.text)
    THEN [ok |-> FALSE, transcript |-> undefined,
          error |-> <<"Failed to process API response: ", "No speech detected in audio">>]
  ELSE [ok |-> TRUE, transcript |-> Trim(resp.text), error |-> <<>>]

\* the 'receiving' events of sendToGroqAPI: one per chunk of the body
\* (ReceivingThenResubmitted is a sendToGroqAPI that announces the request
\* again after the body arrived)
ReceivingThenResubmitted(resp) ==
  <<Event("receiving", <<"Receiving transcription...">>),
    Event("api", <<"Sending to Groq API...">>)>>
ReceivingEvents(resp) ==
  IF resp.status = 0 THEN <<>>
  ELSE <<Event("receiving", <<"Receiving transcription...">>)>>

\* postProcessTranscript, the catch block: what the function returns
\* (PostProcessFallbackDropped is the catch block without its `return text`)
PostProcessFallbackDropped(text) == undefined
PostProcessFallback(text) == text

\* postProcessTranscript: store.get('promptSettings', {...})
getPromptSettingsDefault(st) == [enabled |-> FALSE, prompt |-> DEFAULT_PROMPT]
getPromptSettings(st) == st.promptSettings

\* postProcessTranscript with promptSettings.enabled false: `return text`
\* (PostProcessSkippedEmpty is the branch returning nothing)
PostProcessSkippedEmpty(text) == undefined
PostProcessSkipped(text) == text

\* postProcessTranscript, from the response on: the value it returns and the
\* events it emits.
postProcessResult(text, presp) ==
  LET failed == [value |-> PostProcessFallback(text),
                 events |-> <<Event("error", <<"Post-processing failed, using raw transcript">>)>>]
  IN IF presp.status = 0 THEN failed
     ELSE IF ~(presp.status >= 200 /\ presp.status < 300) THEN failed
     ELSE IF presp.doc \in {"notjson", "{}"} THEN failed
     ELSE [value |-> presp.text, events |-> <<>>]

\* transcribeAudio, the catch and finally blocks
\* (CaughtAndResent is a catch block that sends the request once more)
CaughtAndResent(r, message) ==
  [r EXCEPT !.pc = "done", !.result = "thrown", !.error = message,
            !.requests = @ + 1,
            !.events = @ \o <<Event("error", <<"Error: ">> \o message)>>]
Caught(r, message) ==
  [r EXCEPT !.pc = "done", !.result = "thrown", !.error = message,
            !.events = @ \o <<Event("error", <<"Error: ">> \o message)>>]

\* transcribeAudio from `processedTranscript = await ...` to its return
Finished(r, processedTranscript) ==
  IF TrimTruthy(processedTranscript)
  THEN [r EXCEPT !.pc = "done", !.result = "returned", !.ret = processedTranscript,
                 !.hist = <<r.raw, processedTranscript>>,
                 !.clip = processedTranscript,
                 !.events = @ \o <<Event("complete", <<"Processing complete">>)>>]
  ELSE [r EXCEPT !.pc = "done", !.result = "returned", !.ret = processedTranscript,
                 !.events = @ \o <<Event("error", <<"Failed to process transcript">>)>>]

\* transcribeAudio, the branch `if (!rawTranscript?.trim())`
NoSpeech(r) ==
  [r EXCEPT !.pc = "done", !.result = "returned",
            !.events = @ \o <<Event("error", <<"No speech detected">>)>>]

\* What the overlay shows after run r emitted its events (handleTranscriptionProgress).
Shown(ov, before, after) ==
  IF overlayWindow # 0 /\ Len(after.events) > Len(before.events)
  THEN [ov EXCEPT !.ui = LastStep(after)] ELSE ov

(***************************************************************************)
(* The overlay renderer (part_000 lines 717-1148).                         *)
(***************************************************************************)
OverlayInit == [isRecording |-> FALSE, isCancelled |-> FALSE,
                mediaRecorder |-> "null", audioContext |-> FALSE,
                stream |-> "none", onstop |-> "idle", ui |-> "recording",
                stopSeen |-> FALSE]

\* stopRecording of the overlay
OverlayStopRecording(ov) ==
  IF ~ov.isRecording \/ ov.mediaRecorder = "null" THEN ov
  ELSE [ov EXCEPT !.isRecording = FALSE,
                  !.onstop = IF ov.mediaRecorder = "recording" THEN "queued" ELSE @,
                  !.mediaRecorder = "inactive",
                  !.audioContext = FALSE]

\* the keydown handler's cancellation block (Escape, and Cmd+, before openSettings)
KeydownCancel(ov) ==
  IF ~ov.isRecording THEN ov
  ELSE LET a == OverlayStopRecording([ov EXCEPT !.isCancelled = TRUE])
       IN [a EXCEPT !.audioContext = FALSE,
                    !.onstop = IF a.mediaRecorder = "recording" THEN "queued" ELSE @,
                    !.mediaRecorder = IF @ = "null" THEN "null" ELSE "inactive",
                    !.isRecording = FALSE]

\* mediaRecorder.onstop up to `await blob.arrayBuffer()`: a cancelled session
\* stops its tracks and returns, any other builds the blob
\* (mediaRecorderOnstopForwarding is the handler without its isCancelled test)
mediaRecorderOnstopForwarding(ov) == [ov EXCEPT !.onstop = "blob"]
mediaRecorderOnstop(ov) ==
  IF ov.isCancelled
  THEN [ov EXCEPT !.onstop = "done", !.stream = "stopped"]
  ELSE [ov EXCEPT !.onstop = "blob"]

(***************************************************************************)
(* The first program: renderer.js (part_000 lines 1-366) and main.js       *)
(* (part_001).  legacy.starts holds the invocations of the renderer's      *)
(* startRecording, each with the MediaRecorder, stream and auto-stop timer *)
(* it created; legacy.runs holds the invocations of main.js's              *)
(* transcribeAudio.  A transcription string is a sequence of tokens; the   *)
(* first token is "Error:" exactly when the string starts with 'Error:'.   *)
(***************************************************************************)
LegacyInit(key) ==
  [isRecording |-> FALSE,      \* renderer: let isRecording
   mediaRecorder |-> 0,        \* renderer: let mediaRecorder (0 is null)
   recordingTimer |-> 0,       \* renderer: let recordingTimer (0 is null)
   starts |-> <<>>,
   storeApiKey |-> key,        \* main: store.get('apiKey')
   apiKey |-> key,             \* main: let apiKey
   mainIsRecording |-> FALSE,  \* main: let isRecording
   runs |-> <<>>,
   tempFiles |-> {},
   clipboard |-> <<"previous">>]

NoStart == [pc |-> "key", recorder |-> "none", tracks |-> "none",
            timer |-> "none", stopEvent |-> "none"]
NoLegacyRun == [pc |-> "done", audio |-> "", resp |-> NoResp,
                transcription |-> <<>>, clip |-> <<>>]

StartIds == 1..Len(legacy.starts)
LegacyRunIds == 1..Len(legacy.runs)

\* 'Error:...'.startsWith('Error:')
StartsWithError(transcription) ==
  transcription # <<>> /\ Head(transcription) = "Error:"

\* renderer.js stopRecording
LegacyStopRecording(l) ==
  IF ~l.isRecording \/ l.mediaRecorder = 0 THEN l
  ELSE LET m == l.mediaRecorder
           cleared == IF l.recordingTimer # 0
                      THEN [l EXCEPT !.starts[l.recordingTimer].timer = "cleared",
                                     !.recordingTimer = 0]
                      ELSE l
       IN [cleared EXCEPT !.starts[m].recorder = "inactive",
                          !.starts[m].stopEvent = "queued",
                          !.starts[m].tracks = "stopped",
                          !.isRecording = FALSE,
                          !.mainIsRecording = FALSE]

\* main.js transcribeAudio, from the fetch's outcome on: the string it
\* returns and whether the temporary file was unlinked.
LegacyTranscription(resp) ==
  IF resp.status = 0
    THEN [text |-> <<"Error from Groq API: ", "network error">>, unlinked |-> FALSE]
  ELSE IF ~(resp.status >= 200 /\ resp.status < 300)
    THEN [text |->
            IF resp.status = 401
              THEN <<"Error:", " API key is invalid or expired. Please update your Groq API key in settings.">>
            ELSE IF resp.status = 404
              THEN <<"Error:", " Speech-to-Text endpoint not found. Please check if the service is available.">>
            ELSE <<"Error from Groq API: ", ToString(resp.status), " ", resp.doc>>,
          unlinked |-> TRUE]
  ELSE IF resp.doc = "notjson"
    THEN [text |-> <<"Error from Groq API: ", "Unexpected token">>, unlinked |-> TRUE]
  ELSE IF resp.doc = "{text}" /\ resp.text # ""
    THEN [text |-> <<resp.text>>, unlinked |-> TRUE]
  ELSE [text |-> <<"Error:", " Unexpected response format from Groq API">>,
        unlinked |-> TRUE]

\* ipcMain.handle('transcribe-audio'), after transcribeAudio returned
LegacyDeliver(l, r, transcription) ==
  IF transcription # <<>> /\ ~StartsWithError(transcription)
  THEN [l EXCEPT !.runs[r].pc = "done", !.runs[r].transcription = transcription,
                 !.runs[r].clip = transcription, !.clipboard = transcription]
  ELSE [l EXCEPT !.runs[r].pc = "done", !.runs[r].transcription = transcription]

Init ==
  /\ isRecording = FALSE
  /\ overlayWindow = 0
  /\ windowsCreated = 0
  /\ store \in [apiKey : ApiKeys,
                promptSettings : [enabled : BOOLEAN, prompt : {DEFAULT_PROMPT}],
                historyEnabled : BOOLEAN,
                history : {<<>>}]
  /\ clipboard = "previous"
  /\ runs = <<>>
  /\ timers = {}
  /\ tempFiles = {}
  /\ encryptionAvailable \in BOOLEAN
  /\ now = 0
  /\ overlay = OverlayInit
  /\ inbox = <<>>
  /\ cancelled = {}
  /\ legacy = LegacyInit("gsk")
  /\ lastCall = NoCall
  /\ appended = <<>>
  /\ hotkey = HotkeyReady

(***************************************************************************)
(* Main process: windows and recording (part_002 lines 491-497, 752-827).  *)
(***************************************************************************)
closeOverlayWindow ==
  /\ overlayWindow' = 0
  /\ overlay' = OverlayInit
  /\ inbox' = <<>>

createOverlayWindow ==
  /\ windowsCreated < MaxSessions
  /\ windowsCreated' = windowsCreated + 1
  /\ overlayWindow' = windowsCreated + 1
  /\ overlay' = OverlayInit

startRecording ==
  /\ ~isRecording
  /\ isRecording' = TRUE
  /\ createOverlayWindow
  /\ inbox' = <<"start-recording">>
  /\ UNCHANGED <<store, clipboard, runs, timers, tempFiles, encryptionAvailable,
                 now, cancelled, legacy, lastCall, appended, hotkey>>

stopRecording ==
  /\ isRecording
  /\ isRecording' = FALSE
  /\ inbox' = IF overlayWindow # 0 THEN Append(inbox, "stop-recording") ELSE inbox
  /\ UNCHANGED <<overlayWindow, windowsCreated, overlay, store, clipboard, runs,
                 timers, tempFiles, encryptionAvailable, now, cancelled, legacy, lastCall, appended, hotkey>>

\* the global shortcut and the tray's Start/Stop Recording item
toggleRecording ==
  IF isRecording THEN stopRecording ELSE startRecording

\* setTimeout(() => closeOverlayWindow(), ...) of run r fires
TimerFires(r) ==
  /\ r \in timers
  /\ timers' = timers \ {r}
  /\ closeOverlayWindow
  /\ UNCHANGED <<isRecording, windowsCreated, store, clipboard, runs, tempFiles,
                 encryptionAvailable, now, cancelled, legacy, lastCall, appended, hotkey>>

\* ipcMain.handle('open-settings'), reached from the overlay's Cmd+, key
openSettings ==
  /\ closeOverlayWindow
  /\ isRecording' = FALSE
  /\ cancelled' = cancelled \cup {r \in RunIds : runs[r].pc # "done"}
  /\ UNCHANGED <<windowsCreated, store, clipboard, runs, timers, tempFiles,
                 encryptionAvailable, now, legacy, lastCall, appended, hotkey>>

(***************************************************************************)
(* Overlay events.                                                         *)
(***************************************************************************)
\* ipcRenderer.on('start-recording' | 'stop-recording')
OverlayReceives ==
  /\ overlayWindow # 0 /\ inbox # <<>>
  /\ inbox' = Tail(inbox)
  /\ overlay' =
       IF Head(inbox) = "start-recording"
       THEN [overlay EXCEPT !.isRecording = TRUE, !.stream = "pending",
                            !.ui = "recording"]
       ELSE [OverlayStopRecording(overlay) EXCEPT !.stopSeen = TRUE]
  /\ UNCHANGED <<isRecording, overlayWindow, windowsCreated, store, clipboard,
                 runs, timers, tempFiles, encryptionAvailable, now, cancelled,
                 legacy, lastCall, appended, hotkey>>

\* getUserMedia resolves: setupAudioAnalyzer, setupMediaRecorder, start()
MicrophoneGranted ==
  /\ overlayWindow # 0 /\ overlay.stream = "pending"
  /\ overlay' = [overlay EXCEPT !.stream = "live", !.audioContext = TRUE,
                                !.mediaRecorder = "recording"]
  /\ UNCHANGED <<isRecording, overlayWindow, windowsCreated, store, clipboard,
                 runs, timers, tempFiles, encryptionAvailable, now, inbox,
                 cancelled, legacy, lastCall, appended, hotkey>>

\* getUserMedia rejects: the catch block of startRecording
MicrophoneDenied ==
  /\ overlayWindow # 0 /\ overlay.stream = "pending"
  /\ overlay' = [overlay EXCEPT !.stream = "failed", !.ui = "error"]
  /\ UNCHANGED <<isRecording, overlayWindow, windowsCreated, store, clipboard,
                 runs, timers, tempFiles, encryptionAvailable, now, inbox,
                 cancelled, legacy, lastCall, appended, hotkey>>

\* keydown Escape while the overlay records
EscapeKey ==
  /\ overlayWindow # 0 /\ overlay.isRecording
  /\ overlay' = [KeydownCancel(overlay) EXCEPT !.stopSeen = TRUE]
  /\ UNCHANGED <<isRecording, overlayWindow, windowsCreated, store, clipboard,
                 runs, timers, tempFiles, encryptionAvailable, now, inbox,
                 cancelled, legacy, lastCall, appended, hotkey>>

\* keydown Cmd+, : cancel when recording, then window.api.openSettings()
SettingsKey ==
  /\ overlayWindow # 0
  /\ openSettings

\* mediaRecorder.onstop up to `await blob.arrayBuffer()`
OnStop ==
  /\ overlayWindow # 0 /\ overlay.onstop = "queued"
  /\ overlay' = mediaRecorderOnstop(overlay)
  /\ UNCHANGED <<isRecording, overlayWindow, windowsCreated, store, clipboard,
                 runs, timers, tempFiles, encryptionAvailable, now, inbox,
                 cancelled, legacy, lastCall, appended, hotkey>>

(***************************************************************************)
(* transcribeAudio (part_002 lines 213-268), in its three macrotasks.      *)
(***************************************************************************)
\* onstop after the await: the tracks stop, the buffer goes to the main
\* process, and ipcMain.handle('audio-data') runs transcribeAudio up to the
\* await of the provider's response.
AudioDataWhile(limit) ==
  /\ overlayWindow # 0 /\ overlay.onstop = "blob"
  /\ Len(runs) < limit
  /\ LET id == Len(runs) + 1
         begun == [NoRun EXCEPT !.window = overlayWindow, !.apiKey = store.apiKey,
                                !.settingsAtStart = store.promptSettings]
         run == IF store.apiKey = ""
                THEN [begun EXCEPT !.result = "thrown",
                        !.error = <<"API key not set. Please configure in settings.">>]
                ELSE [begun EXCEPT !.pc = "provider", !.requests = 1,
                        !.events = <<Event("start", <<"Starting transcription...">>),
                                     Event("api", <<"Sending to Groq API...">>)>>]
         ov == [overlay EXCEPT !.onstop = "done", !.stream = "stopped",
                               !.ui = "processing"]
     IN /\ runs' = Append(runs, run)
        /\ overlay' = Shown(ov, NoRun, run)
        /\ tempFiles' = IF store.apiKey = "" THEN tempFiles ELSE tempFiles \cup {id}
  /\ UNCHANGED <<isRecording, overlayWindow, windowsCreated, store, clipboard,
                 timers, encryptionAvailable, now, inbox, cancelled, legacy, lastCall, appended, hotkey>>

AudioData == AudioDataWhile(MaxRuns)

\* The effects of a run that ended (returned or threw) after its try block
\* was entered: clipboard, history, close timer, temp file.
Ends(r, before, after, fail) ==
  /\ runs' = [runs EXCEPT ![r] = after]
  /\ overlay' = Shown(overlay, before, after)
  /\ clipboard' = IF after.clip # undefined THEN after.clip ELSE clipboard
  /\ store' = IF after.hist # <<>>
              THEN addToHistory(store, after.hist[1], after.hist[2], now, fail)
              ELSE store
  /\ timers' = timers \cup {r}
  /\ tempFiles' = tempFiles \ {r}
  /\ cancelled' = cancelled \ {r}

\* the provider's response (or the transport's failure) arrives
ProviderResponds(r, resp) ==
  /\ r \in RunIds /\ runs[r].pc = "provider"
  /\ LET run == [runs[r] EXCEPT !.resp = resp, !.events = @ \o ReceivingEvents(resp)]
         sent == sendToGroqAPI(resp)
         raw == [run EXCEPT !.raw = sent.transcript,
                   !.events = @ \o <<Event("processing", <<"Post-processing transcript...">>)>>]
     IN IF ~sent.ok
        THEN Ends(r, runs[r], Caught(run, sent.error), "none")
        ELSE IF ~TrimTruthy(sent.transcript)
        THEN Ends(r, runs[r], NoSpeech([run EXCEPT !.raw = sent.transcript]), "none")
        ELSE IF store.apiKey = ""
        THEN Ends(r, runs[r], Caught(raw, <<"API key not set">>), "none")
        ELSE IF ~getPromptSettings(store).enabled
        THEN \E fail \in EncryptFailures :
               Ends(r, runs[r], Finished(raw, PostProcessSkipped(sent.transcript)), fail)
        ELSE /\ runs' = [runs EXCEPT ![r] =
                  [raw EXCEPT !.pc = "post", !.postRequests = 1,
                     !.prompt = getPromptSettings(store).prompt,
                     !.events = @ \o <<Event("processing", <<"Post-processing with Groq...">>)>>]]
             /\ overlay' = Shown(overlay, runs[r], runs'[r])
             /\ UNCHANGED <<clipboard, store, timers, tempFiles, cancelled>>
  /\ UNCHANGED <<isRecording, overlayWindow, windowsCreated, encryptionAvailable,
                 now, inbox, legacy, lastCall, appended, hotkey>>

\* the chat-completions response (or the fetch's failure) arrives
PostProcessResponds(r, presp) ==
  /\ r \in RunIds /\ runs[r].pc = "post"
  /\ LET got == postProcessResult(runs[r].raw, presp)
         run == [runs[r] EXCEPT !.postResp = presp, !.events = @ \o got.events]
     IN \E fail \in EncryptFailures :
          Ends(r, runs[r], Finished(run, got.value), fail)
  /\ UNCHANGED <<isRecording, overlayWindow, windowsCreated, encryptionAvailable,
                 now, inbox, legacy, lastCall, appended, hotkey>>

Next ==
  \/ toggleRecording
  \/ OverlayReceives
  \/ MicrophoneGranted
  \/ MicrophoneDenied
  \/ EscapeKey
  \/ SettingsKey
  \/ OnStop
  \/ AudioData
  \/ \E r \in RunIds, resp \in ProviderResponses : ProviderResponds(r, resp)
  \/ \E r \in RunIds, presp \in PostResponses : PostProcessResponds(r, presp)
  \/ \E r \in RunIds : TimerFires(r)

Spec == Init /\ [][Next]_vars

\* What the event loop and the platform guarantee: a queued message or event
\* is handled, getUserMedia settles, a request settles (with a response or
\* with a failure), a timer fires.  What the user does is not guaranteed.
Fairness ==
  /\ WF_vars(OverlayReceives)
  /\ WF_vars(MicrophoneGranted \/ MicrophoneDenied)
  /\ WF_vars(OnStop)
  /\ WF_vars(AudioData)
  /\ \A r \in 1..MaxRuns :
       /\ WF_vars(\E resp \in ProviderResponses : ProviderResponds(r, resp))
       /\ WF_vars(\E presp \in PostResponses : PostProcessResponds(r, presp))
       /\ WF_vars(TimerFires(r))

FairSpec == Spec /\ Fairness

(***************************************************************************)
(* Claims about the current program, checked under Spec.                   *)
(***************************************************************************)
Done(r) == runs[r].pc = "done"
Range(f) == {f[i] : i \in DOMAIN f}
LastMessage(r) == IF r.events = <<>> THEN <<>> ELSE r.events[Len(r.events)].message

\* C1: at most one session is active: while a run of an earlier session is
\* still transcribing or post-processing, the main process is not recording
\* (a start request is rejected or treated as a stop).
C1_OneSessionAtATime ==
  isRecording => \A r \in RunIds : Done(r)

\* C2: a run that was in flight when a cancel was issued after stop ends
\* without writing the clipboard and without appending a history entry.
C2_CancelSuppressesOutput ==
  [][\A r \in cancelled :
       runs'[r].pc = "done" => runs'[r].clip = undefined /\ runs'[r].hist = <<>>]_vars

\* C3: once the overlay has processed a stop or a cancel, no capture of the
\* session runs: the recorder does not record, the audio context is closed,
\* and a live stream is only one whose release (onstop) is already queued.
C3_ReleasedAfterStop ==
  (overlayWindow # 0 /\ overlay.stopSeen) =>
    /\ overlay.mediaRecorder # "recording"
    /\ ~overlay.audioContext
    /\ (overlay.stream = "live" => overlay.onstop \in {"queued", "blob"})

\* C6: post-processing answered 2xx with a malformed response or without
\* usable content: the run writes rawText to the clipboard and ends in
\* 'complete'.
Unusable(presp) ==
  /\ presp.status = 200
  /\ \/ presp.doc \in {"notjson", "{}", "{choices:[{message:{}}]}"}
     \/ presp.doc = "{content}" /\ presp.text = ""
C6_UnusablePostProcessDeliversRaw ==
  \A r \in RunIds :
    (Done(r) /\ Unusable(runs[r].postResp)) =>
      runs[r].clip = runs[r].raw /\ LastStep(runs[r]) = "complete"

\* C7: the post-processing call threw or answered with an HTTP failure: the
\* run ends in 'complete', the clipboard got rawText, and the run handed
\* addToHistory a processedText equal to rawText.
PostFailed(presp) == presp.status = 0 \/ presp.status >= 300
C7_PostProcessFailureFallsBack ==
  \A r \in RunIds :
    (Done(r) /\ PostFailed(runs[r].postResp)) =>
      /\ LastStep(runs[r]) = "complete"
      /\ runs[r].raw # undefined /\ runs[r].clip = runs[r].raw
      /\ runs[r].hist = <<runs[r].raw, runs[r].raw>>
      /\ runs[r].result = "returned" /\ runs[r].ret = runs[r].raw
C7_Witness ==
  \E r \in RunIds :
    /\ Done(r) /\ PostFailed(runs[r].postResp)
    /\ runs[r].raw = "hi" /\ clipboard = "hi"
    /\ LastStep(runs[r]) = "complete"
    /\ Len(store.history) = 1
    /\ store.history[1].rawText = store.history[1].processedText

\* C9: a 2xx answer with an empty or missing text ends the run in the
\* empty-result outcome (the run returns with 'No speech detected'), not in
\* the generic error outcome (the catch block: the run throws, the message
\* is 'Error: ...'), and writes neither history nor clipboard.
EmptyText(resp) ==
  resp.status = 200 /\ resp.doc \in {"{}", "{text}"} /\ ~TrimTruthy(resp.text)
C9_EmptyResultOutcome ==
  \A r \in RunIds :
    (Done(r) /\ EmptyText(runs[r].resp)) =>
      /\ runs[r].result = "returned"
      /\ LastMessage(runs[r]) = <<"No speech detected">>
      /\ runs[r].clip = undefined /\ runs[r].hist = <<>>

\* C10: the error of a run follows the provider's status: 401 says the API
\* key is invalid or expired, 404 names the endpoint, any other non-2xx
\* carries the status code and the body.
C10_ErrorFollowsStatus ==
  \A r \in RunIds :
    (Done(r) /\ runs[r].resp.status >= 300) =>
      LET said == Range(LastMessage(runs[r])) IN
        /\ runs[r].resp.status = 401 => "API key is invalid or expired" \in said
        /\ runs[r].resp.status = 404 => "endpoint not found" \in said
        /\ runs[r].resp.status \notin {401, 404} =>
             ToString(runs[r].resp.status) \in said /\ runs[r].resp.doc \in said

\* C11: a run begun with a missing or blank API key sends no request, neither
\* to the transcription endpoint nor to the chat-completions endpoint, and
\* fails with the configuration error.
C11_NoKeyNoNetwork ==
  \A r \in RunIds :
    Trim(runs[r].apiKey) = "" =>
      /\ runs[r].requests = 0 /\ runs[r].postRequests = 0
      /\ runs[r].result = "thrown"
      /\ runs[r].error = <<"API key not set. Please configure in settings.">>

\* C12: with no API key configured a start has no effect: the main process
\* does not record, no overlay is open and no microphone is requested or
\* captured.
C12_StartWithoutKeyRefused ==
  store.apiKey = "" =>
    /\ ~isRecording
    /\ overlayWindow = 0
    /\ overlay.stream \notin {"pending", "live"}

\* C13: a session cancelled while recording forwards nothing: no run of the
\* pipeline (so no audio blob and no transcription request) belongs to an
\* overlay whose session was cancelled.
C13_CancelledAudioDiscarded ==
  (overlayWindow # 0 /\ overlay.isCancelled) =>
    \A r \in RunIds : runs[r].window # overlayWindow
C13_Witness ==
  /\ overlayWindow # 0 /\ overlay.isCancelled
  /\ overlay.onstop = "done" /\ overlay.stream = "stopped"
  /\ \A r \in RunIds : runs[r].window # overlayWindow

\* C14: after a cancel the main process's recording flag is false whenever
\* the overlay neither records nor waits for the microphone, so that the
\* next hotkey press starts a recording.
C14_CancelResetsMainFlag ==
  (overlay.isCancelled /\ ~overlay.isRecording /\ overlay.stream # "pending")
    => ~isRecording

\* C15: after the overlay has processed a stop for a session, the session's
\* audio is eventually handed to the pipeline (a run of that overlay
\* begins), also when the stop came while the microphone was still being
\* acquired.  Sessions that were cancelled, whose window was closed, whose
\* microphone was refused, or that MaxRuns keeps from running are left out.
StopProcessed(w) ==
  overlayWindow = w /\ overlay.stopSeen /\ ~overlay.isCancelled
BlobHanded(w) == \E r \in RunIds : runs[r].window = w
Excused(w) ==
  \/ overlayWindow # w
  \/ overlay.isCancelled
  \/ overlay.stream = "failed"
  \/ Len(runs) >= MaxRuns
C15_StopYieldsOneBlob ==
  \A w \in 1..MaxSessions :
    StopProcessed(w) ~> (BlobHanded(w) \/ Excused(w))

\* C16: a run that has ended sent 'complete' or 'error' as its last progress
\* event, and its overlay is closed or the timer that will close it is
\* pending; this includes a run that failed before any network call.
C16_RunEndsAndOverlayCloses ==
  \A r \in RunIds :
    Done(r) =>
      /\ LastStep(runs[r]) \in {"complete", "error"}
      /\ r \in timers \/ overlayWindow # runs[r].window

\* C17: when the microphone was refused the overlay shows the error and the
\* session is aborted: neither the main process nor the overlay still has
\* its recording flag set.
C17_MicrophoneFailureAborts ==
  (overlayWindow # 0 /\ overlay.stream = "failed") =>
    /\ overlay.ui = "error"
    /\ ~overlay.isRecording
    /\ ~isRecording

\* C18: a recording ends by itself: whenever the overlay's recorder records
\* and no stop or cancel has been processed for the session, the recorder
\* eventually no longer records, whether or not a stop or cancel follows.
C18_AutoStopCeiling ==
  (overlayWindow # 0 /\ overlay.mediaRecorder = "recording" /\ ~overlay.stopSeen)
    ~> (overlay.mediaRecorder # "recording")

StepRank(step) ==
  CASE step = "start" -> 1
    [] step = "api" -> 2
    [] step = "receiving" -> 3
    [] step = "processing" -> 4
    [] OTHER -> 5
Steps(r) == [i \in DOMAIN r.events |-> r.events[i].step]
InOrder(r) ==
  \A i, j \in DOMAIN r.events :
    i < j => StepRank(r.events[i].step) <= StepRank(r.events[j].step)

C22_NoRetry ==
  \A r \in RunIds :
    /\ runs[r].requests <= 1 /\ runs[r].postRequests <= 1
    /\ runs[r].resp # NoResp => runs[r].requests = 1
    /\ runs[r].postResp # NoResp => runs[r].postRequests = 1
C22_Witness ==
  \E r \in RunIds :
    /\ Done(r) /\ runs[r].resp.status = 200 /\ runs[r].postResp.status = 500
    /\ runs[r].requests = 1 /\ runs[r].postRequests = 1

\* the places in the events of run r where a terminal event stands
Terminals(r) ==
  {i \in DOMAIN runs[r].events : runs[r].events[i].step \in {"error", "complete"}}

\* C33: a run emits exactly one terminal progress event: never both 'error'
\* and 'complete', and no progress event after an 'error'.
C33_OneTerminalEvent ==
  \A r \in RunIds :
    /\ Cardinality(Terminals(r)) <= 1
    /\ \A i \in Terminals(r) :
         runs[r].events[i].step = "error" => i = Len(runs[r].events)
    /\ (Done(r) /\ runs[r].events # <<>>) => Cardinality(Terminals(r)) = 1

\* C32: the delayed close scheduled at the end of run r closes only the
\* overlay of the session that ran: it closes no overlay window created
\* later, and it does not leave the main process recording without an
\* overlay window.
C32_DelayedCloseOwnOverlayOnly ==
  [][\A r \in RunIds :
       (r \in timers /\ r \notin timers')
       => /\ overlayWindow # runs[r].window => overlayWindow' = overlayWindow
          /\ ~(isRecording' /\ overlayWindow' = 0)]_vars

(***************************************************************************)
(* The current program with its prompt settings changed while it runs      *)
(* (part_002 lines 548-558).                                               *)
(***************************************************************************)
InitSettings ==
  /\ isRecording = FALSE
  /\ overlayWindow = 0
  /\ windowsCreated = 0
  /\ store \in [apiKey : {"gsk"},
                promptSettings : [enabled : BOOLEAN, prompt : {DEFAULT_PROMPT}],
                historyEnabled : {FALSE},
                history : {<<>>}]
  /\ clipboard = "previous"
  /\ runs = <<>>
  /\ timers = {}
  /\ tempFiles = {}
  /\ encryptionAvailable = FALSE
  /\ now = 0
  /\ overlay = OverlayInit
  /\ inbox = <<>>
  /\ cancelled = {}
  /\ legacy = LegacyInit("gsk")
  /\ lastCall = NoCall
  /\ appended = <<>>
  /\ hotkey = HotkeyReady

\* ipcMain.handle('set-prompt-settings')
setPromptSettings(settings) ==
  /\ store' = [store EXCEPT !.promptSettings = settings]
  /\ UNCHANGED <<isRecording, overlayWindow, windowsCreated, clipboard, runs,
                 timers, tempFiles, encryptionAvailable, now, overlay, inbox,
                 cancelled, legacy, lastCall, appended, hotkey>>

NextSettings ==
  \/ Next
  \/ \E settings \in PromptSettings : setPromptSettings(settings)

SpecSettings == InitSettings /\ [][NextSettings]_vars

\* the step in which run r got its transcript and postProcessTranscript was called
PostProcessBegins(r) ==
  /\ r \in RunIds /\ runs[r].pc = "provider"
  /\ runs'[r].pc # "provider"
  /\ TrimTruthy(runs'[r].raw)
  /\ store.apiKey # ""

\* C30: the prompt settings are read at each post-processing invocation: the
\* settings in the store when a run's post-processing step begins (those of
\* the last update completed before it) decide whether the post-processing
\* request is sent and which prompt it carries.
C30_SettingsReadAtPostProcessing ==
  [][\A r \in RunIds :
       PostProcessBegins(r)
       => /\ runs'[r].postRequests = 1 <=> store.promptSettings.enabled
          /\ runs'[r].postRequests = 1 => runs'[r].prompt = store.promptSettings.prompt
          /\ runs'[r].postRequests = 0 => runs'[r].prompt = undefined]_vars

\* a run started with post-processing disabled, then enabled with another
\* prompt before the transcript arrived: the request went out with that
\* prompt and its answer reached the clipboard
C30_Witness ==
  \E r \in RunIds :
    /\ Done(r) /\ ~runs[r].settingsAtStart.enabled
    /\ runs[r].postRequests = 1 /\ runs[r].prompt = "notes"
    /\ runs[r].clip # undefined /\ clipboard = runs[r].clip
    /\ runs[r].clip # runs[r].raw

(***************************************************************************)
(* The current program with its API key changed while it runs (part_002    *)
(* lines 514-517).                                                         *)
(***************************************************************************)
\* ipcMain.handle('set-api-key'): the key is stored as given
setApiKey(key) ==
  /\ store' = [store EXCEPT !.apiKey = key]
  /\ UNCHANGED <<isRecording, overlayWindow, windowsCreated, clipboard, runs,
                 timers, tempFiles, encryptionAvailable, now, overlay, inbox,
                 cancelled, legacy, lastCall, appended, hotkey>>

NextApiKey ==
  \/ Next
  \/ \E key \in ApiKeys : setApiKey(key)

SpecApiKey == InitSettings /\ [][NextApiKey]_vars

\* C34: a change of the stored API key after the transcription request was
\* sent does not lose the transcript: with post-processing disabled, a run
\* whose provider call returned a non-empty text writes that text to the
\* clipboard.
C34_KeyChangeKeepsTranscript ==
  \A r \in RunIds :
    (/\ Done(r) /\ runs[r].requests = 1
     /\ ~store.promptSettings.enabled
     /\ TrimTruthy(runs[r].raw))
    => runs[r].clip = runs[r].raw

(***************************************************************************)
(* The current program with one more run in flight: a recording is made    *)
(* while the transcription before it still waits (part_002 lines 504-511). *)
(***************************************************************************)
MaxInFlight == MaxRuns + 1

\* the provider's answer to a recording of other words
OtherResponse == [status |-> 200, doc |-> "{text}", text |-> "ho"]

NextInFlight ==
  \/ Next
  \/ AudioDataWhile(MaxInFlight)
  \/ \E r \in RunIds : ProviderResponds(r, OtherResponse)

SpecInFlight == InitSettings /\ [][NextInFlight]_vars

\* C35: with two runs in flight at once, the clipboard finally holds the
\* transcript of the recording made last, whichever response arrived first.
C35_LastRecordingOnClipboard ==
  \A r, q \in RunIds :
    (/\ r < q /\ Done(r) /\ Done(q)
     /\ runs[r].clip # undefined /\ runs[q].clip # undefined)
    => clipboard = runs[q].clip

(***************************************************************************)
(* The history operations (part_002 lines 68-151, 243-249, 561-583), with  *)
(* the clock moving.  The store outlives the process, and                  *)
(* safeStorage.isEncryptionAvailable() is asked at every call.             *)
(***************************************************************************)
MaxAppends == 2       \* entries appended between two clears
MaxTime == 60         \* the clock stops there

\* the transcripts of successful runs: raw text, then processed text
Transcripts == {<<"a", "a">>, <<"a", "b">>}
\* by how many days the clock moves between two operations
Advances == {29, 30, 31}

pipelineVars == <<isRecording, overlayWindow, windowsCreated, runs, timers,
                  tempFiles, overlay, inbox, cancelled, legacy, hotkey>>

InitHistory ==
  /\ isRecording = FALSE
  /\ overlayWindow = 0
  /\ windowsCreated = 0
  /\ store \in [apiKey : {"gsk"},
                promptSettings : {[enabled |-> FALSE, prompt |-> DEFAULT_PROMPT]},
                historyEnabled : BOOLEAN,
                history : {<<>>}]
  /\ clipboard = "previous"
  /\ runs = <<>>
  /\ timers = {}
  /\ tempFiles = {}
  /\ encryptionAvailable \in BOOLEAN
  /\ now = 0
  /\ overlay = OverlayInit
  /\ inbox = <<>>
  /\ cancelled = {}
  /\ legacy = LegacyInit("gsk")
  /\ lastCall = NoCall
  /\ appended = <<>>
  /\ hotkey = HotkeyReady

\* an operation: what it wrote to the clipboard, whether it sent
\* 'history-updated', and what it returned
Call(op, text, notified, result) ==
  [op |-> op, clipboard |-> text, notified |-> notified, result |-> result]

\* transcribeAudio, the branch `if (processedTranscript?.trim())`: addToHistory,
\* then clipboard.writeText.  The main window exists from initialize on (its
\* close only hides it), so 'history-updated' is sent whenever addToHistory
\* gets that far.
RunSucceeds(rawText, processedText, fail) ==
  /\ Len(appended) < MaxAppends
  /\ store' = addToHistory(store, rawText, processedText, now, fail)
  /\ clipboard' = processedText
  /\ lastCall' = Call("append", processedText, store.historyEnabled, <<>>)
  /\ appended' = IF store.historyEnabled
                 THEN <<[timestamp |-> now, rawText |-> rawText,
                         processedText |-> processedText,
                         available |-> encryptionAvailable,
                         disabledSince |-> FALSE]>> \o appended
                 ELSE appended
  /\ UNCHANGED <<encryptionAvailable, now>> /\ UNCHANGED pipelineVars

\* ipcMain.handle('get-history')
GetHistory ==
  /\ store' = getHistory(store, now).store
  /\ lastCall' = Call("list", "", FALSE, getHistory(store, now).result)
  /\ UNCHANGED <<clipboard, encryptionAvailable, now, appended, hotkey>>
  /\ UNCHANGED pipelineVars

\* ipcMain.handle('clear-history')
ClearHistory ==
  /\ store' = clearHistory(store)
  /\ lastCall' = Call("clear", "", TRUE, <<>>)
  /\ appended' = <<>>
  /\ UNCHANGED <<clipboard, encryptionAvailable, now>> /\ UNCHANGED pipelineVars

\* ipcMain.handle('set-history-enabled')
SetHistoryEnabled(enabled) ==
  /\ store' = setHistoryEnabled(store, enabled)
  /\ lastCall' = Call("setEnabled", "", FALSE, <<>>)
  /\ appended' = IF enabled THEN appended
                 ELSE [j \in 1..Len(appended) |->
                        [appended[j] EXCEPT !.disabledSince = TRUE]]
  /\ UNCHANGED <<clipboard, encryptionAvailable, now>>
  /\ UNCHANGED pipelineVars

\* time passes
Tick(d) ==
  /\ now + d <= MaxTime
  /\ now' = now + d
  /\ UNCHANGED <<store, clipboard, encryptionAvailable, lastCall, appended, hotkey>>
  /\ UNCHANGED pipelineVars

\* the platform's answer to isEncryptionAvailable() changes (another launch,
\* a keyring that went away or came back)
AvailabilityChanges ==
  /\ encryptionAvailable' = ~encryptionAvailable
  /\ UNCHANGED <<store, clipboard, now, lastCall, appended, hotkey>>
  /\ UNCHANGED pipelineVars

NextHistory ==
  \/ \E transcript \in Transcripts, fail \in EncryptFailures :
       RunSucceeds(transcript[1], transcript[2], fail)
  \/ GetHistory
  \/ ClearHistory
  \/ \E enabled \in BOOLEAN : SetHistoryEnabled(enabled)
  \/ \E d \in Advances : Tick(d)
  \/ AvailabilityChanges

SpecHistory == InitHistory /\ [][NextHistory]_vars

(***************************************************************************)
(* Claims about the history, checked under SpecHistory.                    *)
(***************************************************************************)
\* a step of GetHistory (or a step that changes nothing after one)
ListStep ==
  /\ lastCall'.op = "list"
  /\ now' = now
  /\ encryptionAvailable' = encryptionAvailable

\* the age in days of an entry, read at time t
Age(item, t) == t - item.timestamp

\* list entry e shows the texts that were appended as a
Shows(e, a) ==
  /\ e.timestamp = a.timestamp
  /\ e.rawText = plaintext(a.rawText)
  /\ e.processedText = plaintext(a.processedText)

\* C23: with history enabled, an append followed by a list returns an entry
\* whose rawText and processedText are the texts that were appended, with
\* encryption available and without it (the same at both calls, and the entry
\* still within the thirty days).
C23_HistoryRoundTrip ==
  [][(/\ lastCall.op = "append" /\ lastCall.notified
      /\ ListStep
      /\ Head(appended).available = encryptionAvailable
      /\ Age(Head(appended), now) < ThirtyDays)
     => \E i \in DOMAIN lastCall'.result :
          Shows(lastCall'.result[i], Head(appended))]_vars

\* C24: every stored entry has encrypted = TRUE exactly when both of its
\* text fields are stored as ciphertext, and encrypted = FALSE exactly when
\* both are stored as plaintext, also after an encryption call failed.
C24_EncryptedFlagMatchesFields ==
  \A i \in DOMAIN store.history :
    LET item == store.history[i]
    IN /\ item.encrypted <=> (item.rawText.ct /\ item.processedText.ct)
       /\ ~item.encrypted <=> (~item.rawText.ct /\ ~item.processedText.ct)

\* C25: list() does not fail when an entry cannot be decrypted: that entry is
\* returned with the placeholder in both text fields and its own timestamp,
\* and every other entry is returned with its texts, at its position in the
\* stored (pruned) list.
C25_UndecryptableEntryIsPlaceholder ==
  [][(ListStep /\ encryptionAvailable /\ store.historyEnabled)
     => LET stored == store'.history
            result == lastCall'.result
        IN /\ Len(result) = Len(stored)
           /\ \A i \in DOMAIN stored :
                /\ result[i].timestamp = stored[i].timestamp
                /\ IF stored[i].encrypted /\ ~(stored[i].rawText.ct /\ stored[i].processedText.ct)
                   THEN /\ result[i].rawText = CouldNotDecrypt
                        /\ result[i].processedText = CouldNotDecrypt
                   ELSE /\ result[i].rawText = plaintext(stored[i].rawText.txt)
                        /\ result[i].processedText = plaintext(stored[i].processedText.txt)]_vars

\* a list that returned a placeholder entry and, next to it, a decrypted one
C25_Witness ==
  /\ lastCall.op = "list" /\ encryptionAvailable /\ Len(lastCall.result) = 2
  /\ Len(store.history) = 2
  /\ \E i, j \in DOMAIN lastCall.result :
       /\ lastCall.result[i].rawText = CouldNotDecrypt
       /\ lastCall.result[i].processedText = CouldNotDecrypt
       /\ store.history[j].encrypted /\ store.history[j].rawText.ct
       /\ lastCall.result[j].rawText = plaintext("a")
       /\ lastCall.result[j].processedText = plaintext("b")

\* list result r holds the entry that was appended as a
Lists(r, a) == \E i \in DOMAIN r : r[i].timestamp = a.timestamp

\* C26 as stated: whatever list() returns holds no entry thirty days old or
\* older, and holds every entry appended and not cleared that is younger
\* than thirty days.
C26_RetentionWindow ==
  [][ListStep
     => /\ \A i \in DOMAIN lastCall'.result :
             Age(lastCall'.result[i], now) < ThirtyDays
        /\ \A j \in DOMAIN appended :
             Age(appended[j], now) < ThirtyDays => Lists(lastCall'.result, appended[j])]_vars

\* C26, amended: the same while history is enabled.  (With history disabled
\* list() returns the empty list and prunes nothing.)
C26_RetentionWindowWhileEnabled ==
  [][(ListStep /\ store.historyEnabled)
     => /\ \A i \in DOMAIN lastCall'.result :
             Age(lastCall'.result[i], now) < ThirtyDays
        /\ \A j \in DOMAIN appended :
             Age(appended[j], now) < ThirtyDays => Lists(lastCall'.result, appended[j])]_vars

\* a list that dropped an entry that had become thirty days old and kept one
\* that was twenty-nine days old
C26_Witness ==
  /\ lastCall.op = "list" /\ store.historyEnabled
  /\ Len(appended) = 2 /\ Len(lastCall.result) = 1
  /\ \E j \in DOMAIN appended : Age(appended[j], now) >= ThirtyDays
  /\ Age(lastCall.result[1], now) = ThirtyDays - 1
  /\ store.history # <<>> /\ lastCall.result[1].timestamp = store.history[1].timestamp

\* C27: after any sequence of append, list and clear operations the stored
\* list is newest first with unique timestamps: the timestamps decrease
\* strictly from the head of the list.
C27_TimestampsStrictlyDecreasing ==
  \A i \in 1..(Len(store.history) - 1) :
    store.history[i].timestamp > store.history[i + 1].timestamp

\* a step of RunSucceeds, of SetHistoryEnabled
AppendStep ==
  /\ lastCall'.op = "append"
  /\ now' = now
  /\ encryptionAvailable' = encryptionAvailable
SetEnabledStep ==
  /\ lastCall'.op = "setEnabled"
  /\ now' = now
  /\ encryptionAvailable' = encryptionAvailable

\* C28: with history disabled append does nothing: the run writes its text to
\* the clipboard, the store is as it was and no update notification is sent.
C28_DisabledAppendIsNoOp ==
  [][(AppendStep /\ ~store.historyEnabled)
     => /\ store' = store
        /\ ~lastCall'.notified
        /\ clipboard' = lastCall'.clipboard]_vars

\* a run that succeeded with history disabled, over a list stored earlier
C28_Witness ==
  /\ lastCall.op = "append" /\ ~store.historyEnabled /\ ~lastCall.notified
  /\ clipboard = "b" /\ lastCall.clipboard = "b"
  /\ Len(store.history) = 1 /\ Len(appended) = 1
  /\ store.history[1].processedText.txt = "a"

\* C29: setEnabled changes the toggle and nothing else in the store, for both
\* values; an entry appended before history was disabled is listed again once
\* history is enabled, while it is younger than thirty days.
C29_SetEnabledKeepsHistory ==
  [][/\ SetEnabledStep
        => /\ store'.history = store.history
           /\ store' = [store EXCEPT !.historyEnabled = store'.historyEnabled]
     /\ (ListStep /\ store.historyEnabled)
        => \A j \in DOMAIN appended :
             (appended[j].disabledSince /\ Age(appended[j], now) < ThirtyDays)
             => Lists(lastCall'.result, appended[j])]_vars

\* a list, after history was disabled and enabled again, that returned the
\* entry appended before
C29_Witness ==
  /\ lastCall.op = "list" /\ store.historyEnabled
  /\ Len(appended) = 1 /\ appended[1].disabledSince
  /\ Len(lastCall.result) = 1
  /\ Shows(lastCall.result[1], appended[1])

\* C36: list() never returns ciphertext as transcript text: every returned
\* rawText and processedText is plaintext (the text appended, or the
\* placeholder), also when encryption is not as available at the list as it
\* was at the append.
C36_ListReturnsNoCiphertext ==
  [][ListStep
     => \A i \in DOMAIN lastCall'.result :
          /\ ~lastCall'.result[i].rawText.ct
          /\ ~lastCall'.result[i].processedText.ct]_vars

(***************************************************************************)
(* The hotkey's registration and the 'set-shortcut' calls.                 *)
(***************************************************************************)
InitShortcut ==
  /\ isRecording = FALSE
  /\ overlayWindow = 0
  /\ windowsCreated = 0
  /\ store = [apiKey |-> "gsk",
              promptSettings |-> [enabled |-> FALSE, prompt |-> DEFAULT_PROMPT],
              historyEnabled |-> TRUE, history |-> <<>>]
  /\ clipboard = "previous"
  /\ runs = <<>>
  /\ timers = {}
  /\ tempFiles = {}
  /\ encryptionAvailable = TRUE
  /\ now = 0
  /\ overlay = OverlayInit
  /\ inbox = <<>>
  /\ cancelled = {}
  /\ legacy = LegacyInit("gsk")
  /\ lastCall = NoCall
  /\ appended = <<>>
  /\ hotkey \in {NoHotkey(isMacOS, stored) :
                   isMacOS \in BOOLEAN, stored \in Accelerators \cup {undefined}}

shortcutFrame ==
  <<isRecording, overlayWindow, windowsCreated, store, clipboard, runs, timers,
    tempFiles, encryptionAvailable, now, overlay, inbox, cancelled, legacy,
    lastCall, appended>>

\* initialize, from `await app.whenReady()` on
Initialize(outcome) ==
  /\ ~hotkey.initialized
  /\ outcome \in RegisterOutcomes(getShortcut(hotkey))
  /\ hotkey' = initializeShortcut(hotkey, outcome)
  /\ UNCHANGED shortcutFrame

\* ipcMain.handle('set-shortcut')
SetShortcut(shortcut, outcome) ==
  /\ hotkey.initialized
  /\ outcome \in RegisterOutcomes(shortcut)
  /\ hotkey' = setShortcut(hotkey, shortcut, outcome)
  /\ UNCHANGED shortcutFrame

\* the user presses the keys of an accelerator: the system calls
\* toggleRecording if that accelerator is registered
KeysPressed(accelerator) ==
  /\ hotkey.registered = accelerator
  /\ toggleRecording

NextShortcut ==
  \/ \E outcome \in {"registered", "taken"} : Initialize(outcome)
  \/ \E accelerator \in Accelerators : KeysPressed(accelerator)
  \/ \E shortcut \in Requests, outcome \in {"registered", "taken", "throws"} :
       SetShortcut(shortcut, outcome)

SpecShortcut == InitShortcut /\ [][NextShortcut]_vars

\* C31: after initialization the accelerator registered as the global hotkey
\* is the shortcut that get-shortcut reports.
C31_RegisteredIsReported ==
  hotkey.initialized => hotkey.registered = getShortcut(hotkey)

\* C37: set-shortcut reports success only if the new accelerator was
\* registered; when its registration fails the call reports failure, the
\* stored shortcut is unchanged and the accelerator registered before is
\* still registered.
C37_SetShortcutFailureKeepsHotkey ==
  [][(hotkey.initialized /\ hotkey' # hotkey)
     => /\ hotkey'.result = "true" => hotkey'.registered = hotkey'.requested
        /\ hotkey'.registered # hotkey'.requested
           => /\ hotkey'.result = "false"
              /\ hotkey'.stored = hotkey.stored
              /\ hotkey'.registered = hotkey.registered]_vars

(***************************************************************************)
(* The first program: its events.                                          *)
(***************************************************************************)
InitLegacy ==
  /\ isRecording = FALSE
  /\ overlayWindow = 0
  /\ windowsCreated = 0
  /\ store = [apiKey |-> "gsk",
              promptSettings |-> [enabled |-> FALSE, prompt |-> DEFAULT_PROMPT],
              historyEnabled |-> TRUE, history |-> <<>>]
  /\ clipboard = "previous"
  /\ runs = <<>>
  /\ timers = {}
  /\ tempFiles = {}
  /\ encryptionAvailable = TRUE
  /\ now = 0
  /\ overlay = OverlayInit
  /\ inbox = <<>>
  /\ cancelled = {}
  /\ legacy \in {LegacyInit(k) : k \in ApiKeys}
  /\ lastCall = NoCall
  /\ appended = <<>>
  /\ hotkey = HotkeyReady

\* renderer.js toggleRecording: the record button, or 'toggle-recording'
\* sent by the global shortcut
LegacyToggleRecording ==
  /\ IF legacy.isRecording
     THEN legacy' = LegacyStopRecording(legacy)
     ELSE /\ Len(legacy.starts) < MaxLegacyStarts
          /\ legacy' = [legacy EXCEPT !.starts = Append(@, NoStart)]
  /\ UNCHANGED currentVars /\ UNCHANGED <<clipboard, tempFiles, lastCall, appended, hotkey>>

\* startRecording after `await getApiKey()`
LegacyApiKeyRead(s) ==
  /\ s \in StartIds /\ legacy.starts[s].pc = "key"
  /\ legacy' = [legacy EXCEPT !.starts[s].pc =
                  IF legacy.storeApiKey = "" THEN "nokey" ELSE "mic"]
  /\ UNCHANGED currentVars /\ UNCHANGED <<clipboard, tempFiles, lastCall, appended, hotkey>>

\* startRecording after getUserMedia resolved, up to
\* `await updateRecordingState(true)`
LegacyMicrophoneGranted(s) ==
  /\ s \in StartIds /\ legacy.starts[s].pc = "mic"
  /\ legacy' = [legacy EXCEPT !.starts[s].pc = "update",
                              !.starts[s].recorder = "recording",
                              !.starts[s].tracks = "live",
                              !.mediaRecorder = s,
                              !.isRecording = TRUE,
                              !.mainIsRecording = TRUE]
  /\ UNCHANGED currentVars /\ UNCHANGED <<clipboard, tempFiles, lastCall, appended, hotkey>>

\* startRecording when getUserMedia rejected
LegacyMicrophoneDenied(s) ==
  /\ s \in StartIds /\ legacy.starts[s].pc = "mic"
  /\ legacy' = [legacy EXCEPT !.starts[s].pc = "denied"]
  /\ UNCHANGED currentVars /\ UNCHANGED <<clipboard, tempFiles, lastCall, appended, hotkey>>

\* startRecording after `await updateRecordingState(true)`: the auto-stop
\* timer is armed
LegacyTimerArmed(s) ==
  /\ s \in StartIds /\ legacy.starts[s].pc = "update"
  /\ legacy' = [legacy EXCEPT !.starts[s].pc = "done",
                              !.starts[s].timer = "armed",
                              !.recordingTimer = s]
  /\ UNCHANGED currentVars /\ UNCHANGED <<clipboard, tempFiles, lastCall, appended, hotkey>>

\* the 30 s timer of start s fires
LegacyTimerFires(s) ==
  /\ s \in StartIds /\ legacy.starts[s].timer = "armed"
  /\ LET fired == [legacy EXCEPT !.starts[s].timer = "fired"]
     IN legacy' = IF fired.isRecording THEN LegacyStopRecording(fired) ELSE fired
  /\ UNCHANGED currentVars /\ UNCHANGED <<clipboard, tempFiles, lastCall, appended, hotkey>>

\* the recorder's 'stop' event: processRecording, then
\* ipcMain.handle('transcribe-audio') and transcribeAudio up to its fetch
LegacyProcessRecording(s, audio) ==
  /\ s \in StartIds /\ legacy.starts[s].stopEvent = "queued"
  /\ LET r == Len(legacy.runs) + 1
         l == [legacy EXCEPT !.starts[s].stopEvent = "handled",
                             !.runs = Append(@, [NoLegacyRun EXCEPT !.audio = audio])]
     IN IF audio = ""
        THEN legacy' = LegacyDeliver(l, r, <<"Error:", " No audio data provided">>)
        ELSE IF l.apiKey = ""
        THEN legacy' = LegacyDeliver(l, r,
               <<"Error:", " Groq API key not configured. Please enter your API key in the settings.">>)
        ELSE legacy' = [l EXCEPT !.runs[r].pc = "fetch", !.tempFiles = @ \cup {r}]
  /\ UNCHANGED currentVars /\ UNCHANGED <<clipboard, tempFiles, lastCall, appended, hotkey>>

\* the fetch of run r settles
LegacyFetchSettles(r, resp) ==
  /\ r \in LegacyRunIds /\ legacy.runs[r].pc = "fetch"
  /\ LET got == LegacyTranscription(resp)
         l == [legacy EXCEPT !.runs[r].resp = resp,
                 !.tempFiles = IF got.unlinked THEN @ \ {r} ELSE @]
     IN legacy' = LegacyDeliver(l, r, got.text)
  /\ UNCHANGED currentVars /\ UNCHANGED <<clipboard, tempFiles, lastCall, appended, hotkey>>

NextLegacy ==
  \/ LegacyToggleRecording
  \/ \E s \in StartIds : LegacyApiKeyRead(s)
  \/ \E s \in StartIds : LegacyMicrophoneGranted(s)
  \/ \E s \in StartIds : LegacyMicrophoneDenied(s)
  \/ \E s \in StartIds : LegacyTimerArmed(s)
  \/ \E s \in StartIds : LegacyTimerFires(s)
  \/ \E s \in StartIds, audio \in {"", "webm"} : LegacyProcessRecording(s, audio)
  \/ \E r \in LegacyRunIds, resp \in ProviderResponses : LegacyFetchSettles(r, resp)

SpecLegacy == InitLegacy /\ [][NextLegacy]_vars

(***************************************************************************)
(* Claims about the first program, checked under SpecLegacy.               *)
(***************************************************************************)
\* C4: at most one microphone capture stream is open at a time, also when a
\* start is requested while an earlier start still waits for the microphone.
C4_OneCaptureStream ==
  Cardinality({s \in StartIds : legacy.starts[s].tracks = "live"}) <= 1

\* C5: the clipboard is written during a run only if the provider answered
\* 2xx with a non-empty text.
C5_ClipboardOnlyOnSuccess ==
  \A r \in LegacyRunIds :
    legacy.runs[r].clip # <<>> =>
      /\ legacy.runs[r].resp.status = 200
      /\ legacy.runs[r].resp.text \notin {undefined, ""}

\* C8: the temporary file of a run no longer exists when the run has
\* returned, on every exit path.
C8_TempFileRemoved ==
  \A r \in LegacyRunIds :
    legacy.runs[r].pc = "done" => r \notin legacy.tempFiles

\* C19: the auto-stop timer armed by one recording never stops another
\* recording: when the timer of start s fires, the recorder of every other
\* start is left as it was.
C19_TimerStopsOwnRecordingOnly ==
  [][\A s \in StartIds :
       (legacy.starts[s].timer = "armed" /\ legacy'.starts[s].timer = "fired") =>
         \A q \in StartIds \ {s} :
           legacy'.starts[q].recorder = legacy.starts[q].recorder]_vars

====
